---- MODULE Spec2Model ----
(***************************************************************************)
(* Acquisition / buffering layer of the biogas data visualisation tools:   *)
(* the three background workers                                            *)
(*   ThreadedSensorSimulator  (src/sensor_simulator.py, queue.Queue),      *)
(*   SerialDataReader         (src/dashboard.py, deque(maxlen)),           *)
(*   ThingsBoardSensorReader  (src/thingsboard_integration.py, deque),     *)
(* their controller operations (start / stop), their worker loops and the  *)
(* consumer read operations (get latest / get all).                        *)
(*                                                                         *)
(* One behaviour follows one worker object; kind says of which class it    *)
(* is.  Every Python statement that touches shared state is one step.      *)
(***************************************************************************)
EXTENDS Integers, Sequences, FiniteSets

\* ---------------------------------------------------------------- bounds
\* Largest buffer capacity tried (queue maxsize / deque maxlen).
MaxCap == 2
\* Number of readings the source hands out before it only fails or is idle.
MaxReadings == 3
\* Number of worker threads one object may create in a behaviour.
MaxThreads == 2

Kinds == {"sim", "serial", "tb"}
Threads == 1..MaxThreads

\* A reading is identified by the order in which the source produced it;
\* stamped says whether the dict has a 'timestamp' key.
\* state is its 'state' value (2, normal, unless a simulator was told
\* otherwise).
Normal == 2
Reading(n) == [id |-> n, stamped |-> TRUE, state |-> Normal]
\* the n-th reading as a dict without 'timestamp'
Bare(n) == [id |-> n, stamped |-> FALSE, state |-> Normal]
\* Python's None where a reading is expected.
None == Reading(0)

VARIABLES
    kind,               \* class of the worker object
    source,             \* "finite": the sensor hands out MaxReadings readings and
                        \*   then only fails or is silent; "endless": it never runs
                        \*   dry, the readings after the MaxReadings-th being taken
                        \*   for the MaxReadings-th
    format,             \* what the device on the serial port sends: "json" lines
                        \*   or "csv" lines ("none" for the other workers)
    capacity,           \* queue maxsize / deque maxlen, fixed at construction
    running,            \* self.running
    thread,             \* self.thread: 0 is None, otherwise a thread id
    serial_connection,  \* self.serial_connection: 0 is None, else a connection id
    opened,             \* number of serial connections opened so far
    buf,                \* self.data_queue / self.data_buffer
    tpc,                \* position of each worker thread
    tdata,              \* local variable data / reading of each worker thread,
                        \*   None once its value has been put into the buffer
                        \*   (it is assigned again before it is next read)
    nextId,             \* number of readings the source has produced
    ctl,                \* controller threads (callers of start / stop)
    cons,               \* consumer threads (callers of the read operations)
    hist,               \* history: the readings inserted, in insertion order (the
                        \*          last MaxReadings of them)
    fresh,              \* history: insertions since a consumer last took a
                        \*          reading out of the buffer
    errlog,             \* history of the watched thread: whether its read has
                        \*          raised, and whether it has inserted since
    thist,              \* history of each thread that is followed: whether it
                        \*          has slept since its last read attempt, and how
                        \*          many readings it has inserted since running
                        \*          was last cleared
    parsing,            \* one call of parse_serial_line: the line, how it was
                        \*          written, and (once done) what the call gave
    simulator,          \* the BiogasSensorSimulator: state, base_ch4_concentration
    generated,          \* what the last direct call of generate_sensor_reading
                        \*          returned
    lateSet,            \* history: a state setter was called after a caller
                        \*          had entered start
    client,             \* the ThingsBoardClient: token, refresh_token, token_expires
    now,                \* the clock
    api,                \* the call on the client in progress, or the last one
    server,             \* the ThingsBoard server: tokens issued, its devices
    reader,             \* the construction of a ThingsBoardSensorReader
    plots,              \* the plotting consumers
    board               \* the BiogasDashboard: max_points, data_buffer

\* the variables outside the worker and its line parser
sensor == <<simulator, generated, lateSet>>
cloud == <<client, now, api, server, reader>>
display == <<plots, board>>
aux == <<sensor, cloud, display>>

vars == <<aux, thist, parsing, kind, source, format, capacity, running, thread, serial_connection, opened, buf,
          tpc, tdata, nextId, ctl, cons, hist, fresh, errlog>>

\* the variables of the worker object, its threads, callers and histories
worker == <<thist, kind, source, format, capacity, running, thread, serial_connection, opened, buf,
            tpc, tdata, nextId, ctl, cons, hist, fresh, errlog>>

\* ------------------------------------------------- BiogasSensorSimulator

\* Concentrations are counted in steps of 0.05 percent, so that rounding to
\* one decimal has something to round.  np.clip(x, 0, 100): 100 is Full.
Full == 2000
\* base_ch4_concentration: float = 60.0
DefaultBase == 1200
\* how far from 0, from the default and from 100 the base concentrations
\* tried lie, and the largest drift and noise sample tried (in steps)
MaxOff == 2

Measurement == 0
Error == 1
States == {Measurement, Error, Normal}

Near(x) == (x - MaxOff)..(x + MaxOff)
Concentrations == Near(0) \cup Near(DefaultBase) \cup Near(Full)

\* no clipping
NoClip(x) == x
\* np.clip(x, 0, 100)
Clip(x) == IF x < 0 THEN 0 ELSE IF x > Full THEN Full ELSE x

\* _add_noise: value + np.random.normal(0, noise_level * abs(value));
\* sample is the draw for a value that is not 0 (a scale of 0 draws 0)
AddNoise(value, sample) == IF value = 0 THEN value ELSE value + sample

\* round(x, 1) of a value in steps, in tenths: halves go to the even tenth
Round1(x) ==
    LET q == x \div 2
    IN  IF x % 2 = 0 THEN q ELSE IF q % 2 = 0 THEN q ELSE q + 1

\* BiogasSensorSimulator(base_ch4_concentration = base)
NewSimulator(base) == [state |-> Normal, base_ch4_concentration |-> base]

\* no direct call of generate_sensor_reading yet
NotGenerated == [made |-> FALSE, state |-> Normal, ch4_concentration |-> 0]

\* generate_sensor_reading() called directly, with the drift of the
\* concentration and the noise sample it meets
GenerateSensorReading(ch4_variation, sample) ==
    /\ generated' =
          [made |-> TRUE,
           state |-> simulator.state,
           ch4_concentration |->
               Round1(Clip(AddNoise(simulator.base_ch4_concentration + ch4_variation,
                                    sample)))]
    /\ UNCHANGED <<simulator, lateSet, parsing, worker, cloud, display>>

\* a caller has entered start (of the worker built on the simulator)
Started == running \/ thread # 0 \/ \E c \in DOMAIN ctl : ctl[c] # [pc |-> "idle", ret |-> "none"]

\* set_error_state / set_measurement_state / set_normal_state
SetState(st) ==
    /\ simulator' = [simulator EXCEPT !.state = st]
    /\ lateSet' = (lateSet \/ Started)
    /\ UNCHANGED <<generated, parsing, worker, cloud, display>>

set_error_state == SetState(Error)
set_measurement_state == SetState(Measurement)
set_normal_state == SetState(Normal)

\* adjust_ch4_concentration(new_concentration)
adjust_ch4_concentration(new_concentration) ==
    /\ simulator' = [simulator EXCEPT !.base_ch4_concentration = Clip(new_concentration)]
    /\ UNCHANGED <<generated, lateSet, parsing, worker, cloud, display>>

\* the simulator a worker is built with when no call is made on it directly
SensorIdle ==
    /\ simulator = NewSimulator(DefaultBase)
    /\ generated = NotGenerated
    /\ lateSet = FALSE

\* ----------------------------- ThingsBoardClient, ThingsBoardSensorReader()

\* timedelta(hours=1), in ticks of the clock
TokenLife == 2
\* the last tick of the clock
MaxClock == 5
\* the most tokens the server issues
MaxTokens == 2

\* self.token = None, self.token_expires = None
NoToken == 0
NoTime == 0

DeviceNames == {"flow-1", "flow-2"}

\* the four calls that fetch from the server
Fetches == {"get_devices", "get_telemetry_keys", "get_latest_telemetry",
            "get_telemetry_history"}

\* ThingsBoardClient.__init__
NewClient == [token |-> NoToken, refresh_token |-> NoToken, token_expires |-> NoTime]

\* no call made yet.  Of a call: expired says whether the time was past
\* token_expires when it was entered, reauth how its re-authentication went,
\* sent the token its request carried, out how it ended.
NoCall == [op |-> "none", pc |-> "idle", expired |-> FALSE, reauth |-> "none",
           sent |-> NoToken, out |-> "none"]

\* no ThingsBoardSensorReader under construction.  returned is the list
\* get_devices gave, made says that data_buffer, running and thread exist.
NoReader == [status |-> "none", name |-> "", lookups |-> 0, returned |-> {},
             made |-> FALSE]

\* self.token_expires and datetime.now() > self.token_expires
Expired == client.token_expires # NoTime /\ now > client.token_expires

\* authenticate(): the login request succeeds and the fields are assigned,
\* or it raises a RequestException, which is caught
AuthSucceeds ==
    /\ server.issued < MaxTokens
    /\ server' = [server EXCEPT !.issued = @ + 1]
    /\ client' = [token |-> server.issued + 1,
                  refresh_token |-> server.issued + 1,
                  token_expires |-> now + TokenLife]

AuthFails == UNCHANGED <<client, server>>

\* a constructor is between its two calls on the client
Constructing == reader.status \in {"finding", "keys"}

\* the caller calls authenticate()
Authenticate ==
    /\ api.pc = "idle" /\ ~Constructing
    /\ \/ AuthSucceeds /\ api' = [NoCall EXCEPT !.op = "authenticate", !.out = "True"]
       \/ AuthFails /\ api' = [NoCall EXCEPT !.op = "authenticate", !.out = "False"]
    /\ UNCHANGED <<now, reader, sensor, parsing, worker, display>>

\* entry of one of the four fetching calls
Enter(op) == api' = [NoCall EXCEPT !.op = op, !.pc = "check", !.expired = Expired]

CallFetch(op) ==
    /\ api.pc = "idle" /\ ~Constructing
    /\ Enter(op)
    /\ UNCHANGED <<client, now, server, reader, sensor, parsing, worker, display>>

\* _check_token_expiry without the test
CheckTokenExpirySkipped ==
    /\ api.pc = "check"
    /\ api' = [api EXCEPT !.pc = "send"]
    /\ UNCHANGED <<client, server, now, reader, sensor, parsing, worker, display>>

\* self._check_token_expiry()
CheckTokenExpiry ==
    /\ api.pc = "check"
    /\ IF Expired
       THEN \/ AuthSucceeds /\ api' = [api EXCEPT !.pc = "send", !.reauth = "ok"]
            \/ AuthFails /\ api' = [api EXCEPT !.pc = "send", !.reauth = "failed"]
       ELSE /\ api' = [api EXCEPT !.pc = "send"]
            /\ UNCHANGED <<client, server>>
    /\ UNCHANGED <<now, reader, sensor, parsing, worker, display>>

\* requests.get(url, headers=self._get_headers(), ...): _get_headers raises
\* ValueError without a token; otherwise the request goes out with the
\* token, and the server answers it, or the request fails and the except
\* branch returns the empty value
Request ==
    /\ api.pc = "send"
    /\ \/ /\ client.token = NoToken
          /\ api' = [api EXCEPT !.pc = "idle", !.out = "ValueError"]
       \/ /\ client.token # NoToken
          /\ \E answer \in {"data", "empty"} :
                api' = [api EXCEPT !.pc = "idle", !.sent = client.token, !.out = answer]
    /\ UNCHANGED <<client, now, server, reader, sensor, parsing, worker, display>>

\* time passes between calls
Tick ==
    /\ api.pc = "idle" /\ ~Constructing
    /\ now < MaxClock
    /\ now' = now + 1
    /\ UNCHANGED <<client, api, server, reader, sensor, parsing, worker, display>>

\* ThingsBoardSensorReader(client, device_name, ...): the fields up to
\* client.get_device_by_name(device_name), which calls get_devices
NewReader(device_name) ==
    /\ api.pc = "idle" /\ reader.status = "none"
    /\ reader' = [NoReader EXCEPT !.status = "finding", !.name = device_name, !.lookups = 1]
    /\ Enter("get_devices")
    /\ UNCHANGED <<client, now, server, sensor, parsing, worker, display>>

\* the constructor goes on whether or not the device was found
ReaderLookedUpAnyway ==
    /\ reader.status = "finding" /\ api.pc = "idle"
    /\ reader' = [reader EXCEPT !.status = "keys", !.made = TRUE,
                                !.returned = IF api.out = "data" THEN server.devices ELSE {}]
    /\ Enter("get_telemetry_keys")
    /\ UNCHANGED <<client, now, server, sensor, parsing, worker, display>>

\* get_devices has returned (or raised) inside the constructor: the loop
\* of get_device_by_name, if not self.device: raise ValueError, then
\* data_buffer, running, thread and the call of get_telemetry_keys
ReaderLookedUp ==
    /\ reader.status = "finding" /\ api.pc = "idle"
    /\ LET devices == IF api.out = "data" THEN server.devices ELSE {}
       IN  IF api.out = "ValueError" \/ reader.name \notin devices
           THEN /\ reader' = [reader EXCEPT !.status = "raised", !.returned = devices]
                /\ UNCHANGED api
           ELSE /\ reader' = [reader EXCEPT !.status = "keys", !.made = TRUE,
                                            !.returned = devices]
                /\ Enter("get_telemetry_keys")
    /\ UNCHANGED <<client, now, server, sensor, parsing, worker, display>>

\* get_telemetry_keys has returned inside the constructor: the warning
\* about missing keys, and the constructor returns
ReaderBuilt ==
    /\ reader.status = "keys" /\ api.pc = "idle"
    /\ reader' = [reader EXCEPT !.status = IF api.out = "ValueError" THEN "raised" ELSE "built"]
    /\ UNCHANGED <<client, now, api, server, sensor, parsing, worker, display>>

\* no client in use
CloudIdle ==
    /\ client = NewClient
    /\ now = 1
    /\ api = NoCall
    /\ server = [issued |-> 0, devices |-> {}]
    /\ reader = NoReader

\* ------------------------------------------------------------ the buffers

\* queue.Queue.full() with maxsize n
QueueFull(q, n) == Len(q) >= n

\* queue.Queue.empty()
QueueEmpty(q) == Len(q) = 0

\* queue.Queue.put(x) on a queue with room: the item goes to the tail
QueuePut(q, x) == Append(q, x)

\* mutant of DequeAppend: a deque created without maxlen
DequeAppendUnbounded(d, x, n) == Append(d, x)

\* collections.deque(maxlen = n).append(x): a full deque drops its head
\* (with maxlen 0 it keeps nothing)
DequeAppend(d, x, n) ==
    IF n = 0 THEN d
    ELSE IF Len(d) >= n THEN Append(Tail(d), x) ELSE Append(d, x)

\* the last k elements of s (all of s when it is shorter)
LastN(s, k) == IF Len(s) <= k THEN s ELSE SubSeq(s, Len(s) - k + 1, Len(s))

\* s[-1]
Last(s) == s[Len(s)]

\* ------------------------------------------------------------- the sensor

\* the sensor has a reading to hand out
SourceHasReading == nextId < MaxReadings \/ source = "endless"

\* the number of the reading it hands out next
NextReading == IF nextId < MaxReadings THEN nextId + 1 ELSE MaxReadings

\* ------------------------------------------------------ history bookkeeping

Calling(c) == cons[c].pc # "idle"

\* A step of the worker or of another consumer that changes or tests the
\* buffer while a consumer call is in progress makes that call a concurrent one.
Disturb(me) ==
    [c \in DOMAIN cons |->
        IF c # me /\ Calling(c) THEN [cons[c] EXCEPT !.clean = FALSE] ELSE cons[c]]

\* the worker is between the removal of the oldest reading and its put
MidInsertion == \E t \in Threads : tpc[t] \in {"evict", "put"}

\* no thread is followed
NoHistory == <<>>

\* a thread that has made no read attempt
NewThread == [slept |-> TRUE, late |-> 0]

\* thread t is followed
Followed(t) == t \in DOMAIN thist

\* thread t makes a read attempt (slept = FALSE) or sleeps (slept = TRUE)
Slept(t, slept) ==
    thist' = IF Followed(t) THEN [thist EXCEPT ![t].slept = slept] ELSE thist

\* thread t has tested its loop condition and goes on, or exits
LoopTested(t, goesOn) ==
    thist' = IF Followed(t) /\ ~goesOn THEN [thist EXCEPT ![t] = NewThread] ELSE thist

\* thread t has put its reading into the buffer
Inserted(t) ==
    /\ thist' = IF Followed(t) /\ ~running
                 THEN [thist EXCEPT ![t].late = IF @ < 2 THEN @ + 1 ELSE @]
                 ELSE thist
    /\ hist' = LastN(Append(hist, tdata[t]), MaxReadings)
    /\ fresh' = IF fresh < MaxReadings THEN fresh + 1 ELSE fresh
    /\ errlog' = IF errlog.thread = t /\ errlog.raised
                    THEN [errlog EXCEPT !.recovered = TRUE] ELSE errlog
    /\ cons' = Disturb(0)

\* the read step of thread t raised
Raised(t) ==
    errlog' = IF errlog.thread = t THEN [errlog EXCEPT !.raised = TRUE] ELSE errlog

\* what self.thread refers to: no thread (None), or a thread at some position
ThreadState(th) == IF th = 0 THEN "none" ELSE tpc[th]

\* thread t was started and has not exited
Alive(t) == tpc[t] \notin {"unborn", "created", "dead"}

\* ------------------------------------------------ ThreadedSensorSimulator

\* a reading that does not take the simulator's state
GeneratedNormal(n) == Reading(n)

\* data = self.simulator.generate_sensor_reading(); data['timestamp'] = now
Generated(n) == [Reading(n) EXCEPT !.state = simulator.state]

\* mutant of SimLoop: while True
SimLoopNoExit(t) ==
    /\ kind = "sim" /\ tpc[t] = "loop"
    /\ tpc' = [tpc EXCEPT ![t] = "gen"]
    /\ LoopTested(t, TRUE)
    /\ UNCHANGED <<aux, parsing, kind, source, format, capacity, running, thread, serial_connection, opened, buf,
                   tdata, nextId, ctl, cons, hist, fresh, errlog>>

\* _generate_data: while self.running
SimLoop(t) ==
    /\ kind = "sim" /\ tpc[t] = "loop"
    /\ tpc' = [tpc EXCEPT ![t] = IF running THEN "gen" ELSE "dead"]
    /\ LoopTested(t, running)
    /\ UNCHANGED <<aux, parsing, kind, source, format, capacity, running, thread, serial_connection, opened, buf,
                   tdata, nextId, ctl, cons, hist, fresh, errlog>>

\* data = self.simulator.generate_sensor_reading(); data['timestamp'] = now
\* or the call raises and control passes to the handler of the loop body
SimGenerate(t) ==
    /\ kind = "sim" /\ tpc[t] = "gen"
    /\ \/ /\ SourceHasReading
          /\ nextId' = NextReading
          /\ tdata' = [tdata EXCEPT ![t] = Generated(NextReading)]
          /\ tpc' = [tpc EXCEPT ![t] = "full"]
          /\ UNCHANGED errlog
       \/ /\ tpc' = [tpc EXCEPT ![t] = "handler"]
          /\ Raised(t)
          /\ UNCHANGED <<nextId, tdata>>
    /\ Slept(t, FALSE)
    /\ UNCHANGED <<aux, parsing, kind, source, format, capacity, running, thread, serial_connection, opened, buf,
                   ctl, cons, hist, fresh>>

\* mutant of SimHandler: the try block around the while loop, so that the
\* handler ends the thread
SimHandlerExits(t) ==
    /\ kind = "sim" /\ tpc[t] = "handler"
    /\ tpc' = [tpc EXCEPT ![t] = "dead"]
    /\ UNCHANGED <<aux, thist, parsing, kind, source, format, capacity, running, thread, serial_connection, opened, buf,
                   tdata, nextId, ctl, cons, hist, fresh, errlog>>

\* except Exception as e: print(...)   (inside the while loop, no sleep)
SimHandler(t) ==
    /\ kind = "sim" /\ tpc[t] = "handler"
    /\ tpc' = [tpc EXCEPT ![t] = "loop"]
    /\ UNCHANGED <<aux, thist, parsing, kind, source, format, capacity, running, thread, serial_connection, opened, buf,
                   tdata, nextId, ctl, cons, hist, fresh, errlog>>

\* if self.data_queue.full():
SimFullCheck(t) ==
    /\ kind = "sim" /\ tpc[t] = "full"
    /\ tpc' = [tpc EXCEPT ![t] = IF QueueFull(buf, capacity) THEN "evict" ELSE "put"]
    /\ cons' = Disturb(0)
    /\ UNCHANGED <<aux, thist, parsing, kind, source, format, capacity, running, thread, serial_connection, opened, buf,
                   tdata, nextId, ctl, hist, fresh, errlog>>

\* mutant of SimEvict: a full queue is emptied instead of losing its head
SimEvictAll(t) ==
    /\ kind = "sim" /\ tpc[t] = "evict"
    /\ buf' = <<>>
    /\ tpc' = [tpc EXCEPT ![t] = "put"]
    /\ cons' = Disturb(0)
    /\ UNCHANGED <<aux, thist, parsing, kind, source, format, capacity, running, thread, serial_connection, opened,
                   tdata, nextId, ctl, hist, fresh, errlog>>

\* self.data_queue.get_nowait(), queue.Empty passed over
SimEvict(t) ==
    /\ kind = "sim" /\ tpc[t] = "evict"
    /\ buf' = IF QueueEmpty(buf) THEN buf ELSE Tail(buf)
    /\ tpc' = [tpc EXCEPT ![t] = "put"]
    /\ cons' = Disturb(0)
    /\ UNCHANGED <<aux, thist, parsing, kind, source, format, capacity, running, thread, serial_connection, opened,
                   tdata, nextId, ctl, hist, fresh, errlog>>

\* self.data_queue.put(data): blocks while the queue is full
SimPut(t) ==
    /\ kind = "sim" /\ tpc[t] = "put"
    /\ ~QueueFull(buf, capacity)
    /\ buf' = QueuePut(buf, tdata[t])
    /\ Inserted(t)
    /\ tdata' = [tdata EXCEPT ![t] = None]
    /\ tpc' = [tpc EXCEPT ![t] = "sleep"]
    /\ UNCHANGED <<aux, parsing, kind, source, format, capacity, running, thread, serial_connection, opened,
                   nextId, ctl>>

\* time.sleep(interval)
SimSleep(t) ==
    /\ kind = "sim" /\ tpc[t] = "sleep"
    /\ tpc' = [tpc EXCEPT ![t] = "loop"]
    /\ Slept(t, TRUE)
    /\ UNCHANGED <<aux, parsing, kind, source, format, capacity, running, thread, serial_connection, opened, buf,
                   tdata, nextId, ctl, cons, hist, fresh, errlog>>

\* ------------------------------------------------------ SerialDataReader

\* parse_serial_line on a well-formed line carrying the n-th reading: the
\* JSON path returns json.loads(line) as it is, the comma-separated path
\* builds a dict with 'timestamp': datetime.now()
ParsedLine(n) == IF format = "json" THEN Bare(n) ELSE Reading(n)

\* read_data: while self.running and self.serial_connection
SerialLoop(t) ==
    /\ kind = "serial" /\ tpc[t] = "loop"
    /\ tpc' = [tpc EXCEPT ![t] =
                 IF running /\ serial_connection # 0 THEN "readline" ELSE "dead"]
    /\ LoopTested(t, running /\ serial_connection # 0)
    /\ UNCHANGED <<aux, parsing, kind, source, format, capacity, running, thread, serial_connection, opened, buf,
                   tdata, nextId, ctl, cons, hist, fresh, errlog>>

\* line = self.serial_connection.readline().decode(...)
\* if line: data = self.parse_serial_line(line); if data: ...
\* a line that parses to a reading, an empty or unparseable line, or an
\* exception of readline that passes control to the handler of the loop body
SerialReadline(t) ==
    /\ kind = "serial" /\ tpc[t] = "readline"
    /\ \/ /\ SourceHasReading
          /\ nextId' = NextReading
          /\ tdata' = [tdata EXCEPT ![t] = ParsedLine(NextReading)]
          /\ tpc' = [tpc EXCEPT ![t] = "append"]
          /\ UNCHANGED errlog
       \/ /\ tpc' = [tpc EXCEPT ![t] = "loop"]
          /\ UNCHANGED <<nextId, tdata, errlog>>
       \/ /\ tpc' = [tpc EXCEPT ![t] = "backoff"]
          /\ Raised(t)
          /\ UNCHANGED <<nextId, tdata>>
    /\ Slept(t, FALSE)
    /\ UNCHANGED <<aux, parsing, kind, source, format, capacity, running, thread, serial_connection, opened, buf,
                   ctl, cons, hist, fresh>>

\* self.data_buffer.append(data)
SerialAppend(t) ==
    /\ kind = "serial" /\ tpc[t] = "append"
    /\ buf' = DequeAppend(buf, tdata[t], capacity)
    /\ Inserted(t)
    /\ tdata' = [tdata EXCEPT ![t] = None]
    /\ tpc' = [tpc EXCEPT ![t] = "loop"]
    /\ UNCHANGED <<aux, parsing, kind, source, format, capacity, running, thread, serial_connection, opened,
                   nextId, ctl>>

\* except Exception as e: print(...); time.sleep(0.1)
SerialBackoff(t) ==
    /\ kind = "serial" /\ tpc[t] = "backoff"
    /\ tpc' = [tpc EXCEPT ![t] = "loop"]
    /\ Slept(t, TRUE)
    /\ UNCHANGED <<aux, parsing, kind, source, format, capacity, running, thread, serial_connection, opened, buf,
                   tdata, nextId, ctl, cons, hist, fresh, errlog>>

\* ---------------------------------------------- ThingsBoardSensorReader

\* _read_loop: while self.running
TBLoop(t) ==
    /\ kind = "tb" /\ tpc[t] = "loop"
    /\ tpc' = [tpc EXCEPT ![t] = IF running THEN "read" ELSE "dead"]
    /\ LoopTested(t, running)
    /\ UNCHANGED <<aux, parsing, kind, source, format, capacity, running, thread, serial_connection, opened, buf,
                   tdata, nextId, ctl, cons, hist, fresh, errlog>>

\* reading = self.get_latest_reading(); if reading: ...
\* get_latest_reading returns a reading, returns None for an empty telemetry
\* answer, or raises inside its own try block
TBRead(t) ==
    /\ kind = "tb" /\ tpc[t] = "read"
    /\ \/ /\ SourceHasReading
          /\ nextId' = NextReading
          /\ tdata' = [tdata EXCEPT ![t] = Reading(NextReading)]
          /\ tpc' = [tpc EXCEPT ![t] = "append"]
          /\ UNCHANGED errlog
       \/ /\ tpc' = [tpc EXCEPT ![t] = "sleep"]
          /\ UNCHANGED <<nextId, tdata, errlog>>
       \/ /\ tpc' = [tpc EXCEPT ![t] = "caught"]
          /\ Raised(t)
          /\ UNCHANGED <<nextId, tdata>>
    /\ Slept(t, FALSE)
    /\ UNCHANGED <<aux, parsing, kind, source, format, capacity, running, thread, serial_connection, opened, buf,
                   ctl, cons, hist, fresh>>

\* get_latest_reading: except Exception as e: print(...); return None
\* and the loop, given None, goes to its sleep
TBCaught(t) ==
    /\ kind = "tb" /\ tpc[t] = "caught"
    /\ tpc' = [tpc EXCEPT ![t] = "sleep"]
    /\ UNCHANGED <<aux, thist, parsing, kind, source, format, capacity, running, thread, serial_connection, opened, buf,
                   tdata, nextId, ctl, cons, hist, fresh, errlog>>

\* self.data_buffer.append(reading)
TBAppend(t) ==
    /\ kind = "tb" /\ tpc[t] = "append"
    /\ buf' = DequeAppend(buf, tdata[t], capacity)
    /\ Inserted(t)
    /\ tdata' = [tdata EXCEPT ![t] = None]
    /\ tpc' = [tpc EXCEPT ![t] = "sleep"]
    /\ UNCHANGED <<aux, parsing, kind, source, format, capacity, running, thread, serial_connection, opened,
                   nextId, ctl>>

\* time.sleep(interval)
TBSleep(t) ==
    /\ kind = "tb" /\ tpc[t] = "sleep"
    /\ tpc' = [tpc EXCEPT ![t] = "loop"]
    /\ Slept(t, TRUE)
    /\ UNCHANGED <<aux, parsing, kind, source, format, capacity, running, thread, serial_connection, opened, buf,
                   tdata, nextId, ctl, cons, hist, fresh, errlog>>

\* ------------------------------------------------------------ controllers

Idle == [pc |-> "idle", ret |-> "none"]

CtlGoto(c, p) == ctl' = [ctl EXCEPT ![c].pc = p]

CtlReturn(c, r) == ctl' = [ctl EXCEPT ![c] = [pc |-> "idle", ret |-> r]]

\* a caller enters start / start_continuous_reading
CallStart(c) ==
    /\ ctl[c].pc = "idle"
    /\ running \/ \E t \in Threads : tpc[t] = "unborn"
    /\ ctl' = [ctl EXCEPT ![c] = [pc |-> "start", ret |-> "none"]]
    /\ UNCHANGED <<aux, thist, parsing, kind, source, format, capacity, running, thread, serial_connection, opened, buf,
                   tpc, tdata, nextId, cons, hist, fresh, errlog>>

\* a caller enters stop / stop_continuous_reading
CallStop(c) ==
    /\ ctl[c].pc = "idle"
    /\ ctl' = [ctl EXCEPT ![c] = [pc |-> "stop", ret |-> "none"]]
    /\ UNCHANGED <<aux, thist, parsing, kind, source, format, capacity, running, thread, serial_connection, opened, buf,
                   tpc, tdata, nextId, cons, hist, fresh, errlog>>

\* mutant of SimStart: no test of self.running
SimStartNoCheck(c) ==
    /\ kind = "sim" /\ ctl[c].pc = "start"
    /\ CtlGoto(c, "start_set")
    /\ UNCHANGED <<aux, thist, parsing, kind, source, format, capacity, running, thread, serial_connection, opened, buf,
                   tpc, tdata, nextId, cons, hist, fresh, errlog>>

\* ThreadedSensorSimulator.start: if self.running: return
SimStart(c) ==
    /\ kind = "sim" /\ ctl[c].pc = "start"
    /\ IF running THEN CtlReturn(c, "noop") ELSE CtlGoto(c, "start_set")
    /\ UNCHANGED <<aux, thist, parsing, kind, source, format, capacity, running, thread, serial_connection, opened, buf,
                   tpc, tdata, nextId, cons, hist, fresh, errlog>>

\* ThingsBoardSensorReader.start_continuous_reading:
\* if self.running: print("Reader already running"); return
TBStart(c) ==
    /\ kind = "tb" /\ ctl[c].pc = "start"
    /\ IF running THEN CtlReturn(c, "noop") ELSE CtlGoto(c, "start_set")
    /\ UNCHANGED <<aux, thist, parsing, kind, source, format, capacity, running, thread, serial_connection, opened, buf,
                   tpc, tdata, nextId, cons, hist, fresh, errlog>>

\* SerialDataReader.start: if not self.connect(): return False
\* connect opens a new serial.Serial and stores it, or fails (no pyserial, or
\* serial.Serial raises) and leaves self.serial_connection as it was;
\* self.running is not consulted
SerialStart(c) ==
    /\ kind = "serial" /\ ctl[c].pc = "start"
    /\ \/ /\ \E t \in Threads : tpc[t] = "unborn"
          /\ opened' = opened + 1
          /\ serial_connection' = opened + 1
          /\ CtlGoto(c, "start_set")
       \/ /\ CtlReturn(c, "failed")
          /\ UNCHANGED <<opened, serial_connection>>
    /\ UNCHANGED <<aux, thist, parsing, kind, source, format, capacity, running, thread, buf,
                   tpc, tdata, nextId, cons, hist, fresh, errlog>>

\* mutant of StartSetRunning: start gives the worker an empty buffer
StartSetRunningReset(c) ==
    /\ ctl[c].pc = "start_set"
    /\ running' = TRUE
    /\ buf' = <<>>
    /\ CtlGoto(c, "start_mk")
    /\ thist' = [t \in DOMAIN thist |-> [thist[t] EXCEPT !.late = 0]]
    /\ UNCHANGED <<aux, parsing, kind, source, format, capacity, thread, serial_connection, opened,
                   tpc, tdata, nextId, cons, hist, fresh, errlog>>

\* self.running = True
StartSetRunning(c) ==
    /\ ctl[c].pc = "start_set"
    /\ running' = TRUE
    /\ CtlGoto(c, "start_mk")
    /\ thist' = [t \in DOMAIN thist |-> [thist[t] EXCEPT !.late = 0]]
    /\ UNCHANGED <<aux, parsing, kind, source, format, capacity, thread, serial_connection, opened, buf,
                   tpc, tdata, nextId, cons, hist, fresh, errlog>>

\* self.thread = threading.Thread(target = ...)
StartMakeThread(c) ==
    /\ ctl[c].pc = "start_mk"
    /\ \E t \in Threads :
          /\ tpc[t] = "unborn"
          /\ \A u \in Threads : u < t => tpc[u] # "unborn"
          /\ thread' = t
          /\ tpc' = [tpc EXCEPT ![t] = "created"]
    /\ CtlGoto(c, "start_run")
    /\ UNCHANGED <<aux, thist, parsing, kind, source, format, capacity, running, serial_connection, opened, buf,
                   tdata, nextId, cons, hist, fresh, errlog>>

\* self.thread.daemon = True; self.thread.start()
\* Thread.start raises RuntimeError on a thread started before
StartRunThread(c) ==
    /\ ctl[c].pc = "start_run"
    /\ IF ThreadState(thread) = "created"
          THEN /\ tpc' = [tpc EXCEPT ![thread] = "loop"]
               /\ CtlReturn(c, "started")
          ELSE /\ CtlReturn(c, "raised")
               /\ UNCHANGED tpc
    /\ UNCHANGED <<aux, thist, parsing, kind, source, format, capacity, running, thread, serial_connection, opened, buf,
                   tdata, nextId, cons, hist, fresh, errlog>>

\* ThingsBoardSensorReader.stop_continuous_reading: if not self.running: return
TBStop(c) ==
    /\ kind = "tb" /\ ctl[c].pc = "stop"
    /\ IF running
          THEN CtlGoto(c, "stop_clear")
          ELSE CtlReturn(c, "stopped")
    /\ UNCHANGED <<aux, thist, parsing, kind, source, format, capacity, running, thread, serial_connection, opened, buf,
                   tpc, tdata, nextId, cons, hist, fresh, errlog>>

\* self.running = False  (the first statement of stop for the simulator and
\* the serial reader, the statement after the check for ThingsBoard)
StopClearRunning(c) ==
    /\ \/ kind \in {"sim", "serial"} /\ ctl[c].pc = "stop"
       \/ ctl[c].pc = "stop_clear"
    /\ running' = FALSE
    /\ CtlGoto(c, "stop_join")
    /\ UNCHANGED <<aux, thist, parsing, kind, source, format, capacity, thread, serial_connection, opened, buf,
                   tpc, tdata, nextId, cons, hist, fresh, errlog>>

\* if self.thread: self.thread.join()
\* join blocks until the thread has exited and raises RuntimeError on a
\* thread that was not started
StopJoin(c) ==
    /\ ctl[c].pc = "stop_join"
    /\ \/ /\ ThreadState(thread) \in {"none", "dead"}
          /\ CtlReturn(c, "stopped")
       \/ /\ ThreadState(thread) = "created"
          /\ CtlReturn(c, "raised")
    /\ UNCHANGED <<aux, thist, parsing, kind, source, format, capacity, running, thread, serial_connection, opened, buf,
                   tpc, tdata, nextId, cons, hist, fresh, errlog>>

\* -------------------------------------------------------------- consumers

\* A consumer at rest keeps what its last call returned: latest (get latest)
\* or data (get all).  Inside a call, clean says whether the call has run
\* alone so far, and k is the value of fresh when the call began.  exc names
\* the exception with which the last call ended, "none" when it returned.
Resting == [pc |-> "idle", op |-> "none", latest |-> None, data |-> <<>>,
            clean |-> TRUE, k |-> 0, exc |-> "none"]

\* a consumer enters operation o at position p; the call runs alone as long
\* as no insertion is under way and nobody else touches the buffer before it
\* returns
Call(c, o, p) ==
    /\ cons[c].pc = "idle"
    /\ cons' = [cons EXCEPT ![c] =
                  [Resting EXCEPT !.pc = p, !.op = o, !.k = fresh,
                      !.clean = ~MidInsertion /\ \A d \in DOMAIN cons : ~Calling(d)]]
    /\ UNCHANGED <<aux, thist, parsing, kind, source, format, capacity, running, thread, serial_connection, opened, buf,
                   tpc, tdata, nextId, ctl, hist, fresh, errlog>>

\* consumer c returns lat (get latest) or dat (get all)
Return(c, lat, dat) ==
    /\ cons' = [cons EXCEPT ![c] =
                  [pc |-> "idle", op |-> cons[c].op, latest |-> lat, data |-> dat,
                   clean |-> TRUE, k |-> 0, exc |-> "none"]]
    /\ fresh' = fresh

\* the call of consumer c ends with exception e, which no handler of the
\* operation catches
Raise(c, e) ==
    /\ cons' = [cons EXCEPT ![c] = [Resting EXCEPT !.op = cons[c].op, !.exc = e]]
    /\ fresh' = fresh

\* ThreadedSensorSimulator.get_latest_data is called: latest = None
SimCallGetLatest(c) == kind = "sim" /\ Call(c, "get_latest", "gl_empty")

\* while not self.data_queue.empty(): ... return latest
SimGetLatestEmpty(c) ==
    /\ kind = "sim" /\ cons[c].pc = "gl_empty"
    /\ IF QueueEmpty(buf)
          THEN Return(c, cons[c].latest, <<>>)
          ELSE cons' = [cons EXCEPT ![c].pc = "gl_get"] /\ UNCHANGED fresh
    /\ UNCHANGED <<aux, thist, parsing, kind, source, format, capacity, running, thread, serial_connection, opened, buf,
                   tpc, tdata, nextId, ctl, hist, errlog>>

\* mutant of SimGetLatestGet: pop-one, the first reading taken is returned
SimGetLatestGetOne(c) ==
    /\ kind = "sim" /\ cons[c].pc = "gl_get"
    /\ IF QueueEmpty(buf)
          THEN Return(c, None, <<>>) /\ UNCHANGED buf
          ELSE /\ buf' = Tail(buf)
               /\ Return(c, Head(buf), <<>>)
    /\ UNCHANGED <<aux, thist, parsing, kind, source, format, capacity, running, thread, serial_connection, opened,
                   tpc, tdata, nextId, ctl, hist, errlog>>

\* mutant of SimGetLatestGet: get_nowait outside the try block
SimGetLatestGetUncaught(c) ==
    /\ kind = "sim" /\ cons[c].pc = "gl_get"
    /\ IF QueueEmpty(buf)
          THEN Raise(c, "Empty") /\ UNCHANGED buf
          ELSE /\ buf' = Tail(buf)
               /\ cons' = [Disturb(c) EXCEPT ![c].latest = Head(buf),
                                             ![c].pc = "gl_empty"]
               /\ fresh' = 0
    /\ UNCHANGED <<aux, thist, parsing, kind, source, format, capacity, running, thread, serial_connection, opened,
                   tpc, tdata, nextId, ctl, hist, errlog>>

\* latest = self.data_queue.get_nowait();  except queue.Empty: return None
SimGetLatestGet(c) ==
    /\ kind = "sim" /\ cons[c].pc = "gl_get"
    /\ IF QueueEmpty(buf)
          THEN Return(c, None, <<>>) /\ UNCHANGED buf
          ELSE /\ buf' = Tail(buf)
               /\ cons' = [Disturb(c) EXCEPT ![c].latest = Head(buf),
                                             ![c].pc = "gl_empty"]
               /\ fresh' = 0
    /\ UNCHANGED <<aux, thist, parsing, kind, source, format, capacity, running, thread, serial_connection, opened,
                   tpc, tdata, nextId, ctl, hist, errlog>>

\* ThreadedSensorSimulator.get_all_data is called: data = []
SimCallGetAll(c) == kind = "sim" /\ Call(c, "get_all", "ga_empty")

\* while not self.data_queue.empty(): ... return data
SimGetAllEmpty(c) ==
    /\ kind = "sim" /\ cons[c].pc = "ga_empty"
    /\ IF QueueEmpty(buf)
          THEN Return(c, None, cons[c].data)
          ELSE cons' = [cons EXCEPT ![c].pc = "ga_get"] /\ UNCHANGED fresh
    /\ UNCHANGED <<aux, thist, parsing, kind, source, format, capacity, running, thread, serial_connection, opened, buf,
                   tpc, tdata, nextId, ctl, hist, errlog>>

\* data.append(self.data_queue.get_nowait());  except queue.Empty: pass; return data
\* (of a list longer than MaxReadings, which only an endless sensor can
\* bring about, the last MaxReadings elements are kept)
SimGetAllGet(c) ==
    /\ kind = "sim" /\ cons[c].pc = "ga_get"
    /\ IF QueueEmpty(buf)
          THEN Return(c, None, cons[c].data) /\ UNCHANGED buf
          ELSE /\ buf' = Tail(buf)
               /\ cons' = [Disturb(c) EXCEPT
                             ![c].data = LastN(Append(cons[c].data, Head(buf)), MaxReadings),
                             ![c].pc = "ga_empty"]
               /\ fresh' = 0
    /\ UNCHANGED <<aux, thist, parsing, kind, source, format, capacity, running, thread, serial_connection, opened,
                   tpc, tdata, nextId, ctl, hist, errlog>>

\* SerialDataReader.get_latest_data / ThingsBoardSensorReader.get_latest_from_buffer
\* is called
DequeCallGetLatest(c) == kind \in {"serial", "tb"} /\ Call(c, "get_latest", "dl_len")

\* if len(self.data_buffer) > 0: ... ; return None
DequeGetLatestLen(c) ==
    /\ kind \in {"serial", "tb"} /\ cons[c].pc = "dl_len"
    /\ IF Len(buf) > 0
          THEN cons' = [cons EXCEPT ![c].pc = "dl_index"] /\ UNCHANGED <<fresh>>
          ELSE Return(c, None, <<>>)
    /\ UNCHANGED <<aux, thist, parsing, kind, source, format, capacity, running, thread, serial_connection, opened, buf,
                   tpc, tdata, nextId, ctl, hist, errlog>>

\* return self.data_buffer[-1]   (IndexError on an empty deque, not caught)
DequeGetLatestIndex(c) ==
    /\ kind \in {"serial", "tb"} /\ cons[c].pc = "dl_index"
    /\ IF Len(buf) = 0 THEN Raise(c, "IndexError") ELSE Return(c, Last(buf), <<>>)
    /\ UNCHANGED <<aux, thist, parsing, kind, source, format, capacity, running, thread, serial_connection, opened, buf,
                   tpc, tdata, nextId, ctl, hist, errlog>>

\* SerialDataReader.get_data_buffer / ThingsBoardSensorReader.get_buffered_data
\* is called
DequeCallGetAll(c) == kind \in {"serial", "tb"} /\ Call(c, "get_all", "da_list")

\* return list(self.data_buffer)
DequeGetAllList(c) ==
    /\ kind \in {"serial", "tb"} /\ cons[c].pc = "da_list"
    /\ Return(c, None, buf)
    /\ UNCHANGED <<aux, thist, parsing, kind, source, format, capacity, running, thread, serial_connection, opened, buf,
                   tpc, tdata, nextId, ctl, hist, errlog>>

\* ------------------------------------- SerialDataReader.parse_serial_line

\* len(parts) >= 5
MinFields == 5
\* the most fields a comma-separated line is written with
MaxFields == 6

\* the keys of a reading, and the five a line carries, in line order
FieldKeys == <<"state", "temp", "pressure", "flow", "comp">>
AllKeys == {"timestamp", "state", "temp", "pressure", "flow", "comp"}

\* A line is a sequence of lexical items: single characters, number
\* literals (w is the whole part, f the fraction digits), the text nan,
\* a run of letters, and double-quoted strings.
Ch(c) == [c |-> c, w |-> 0, f |-> 0, s |-> ""]
IntLit(w) == [c |-> "int", w |-> w, f |-> 0, s |-> ""]
DecLit(w, f) == [c |-> "dec", w |-> w, f |-> f, s |-> ""]
Quoted(s) == [c |-> "str", w |-> 0, f |-> 0, s |-> s]

\* Python values: int, float (nan apart), str, datetime; Absent for a key
\* the dict does not have
Absent == [ty |-> "absent", w |-> 0, f |-> 0, s |-> ""]
PyInt(w) == [ty |-> "int", w |-> w, f |-> 0, s |-> ""]
PyFloat(w, f) == [ty |-> "float", w |-> w, f |-> f, s |-> ""]
PyNaN == [ty |-> "nan", w |-> 0, f |-> 0, s |-> ""]
PyStr(s) == [ty |-> "str", w |-> 0, f |-> 0, s |-> s]
\* datetime.now()
Now == [ty |-> "datetime", w |-> 0, f |-> 0, s |-> ""]

NoDict == [k \in AllKeys |-> Absent]

\* str.strip()
RECURSIVE LStrip(_)
LStrip(text) ==
    IF Len(text) > 0 /\ Head(text).c = " " THEN LStrip(Tail(text)) ELSE text

RECURSIVE RStrip(_)
RStrip(text) ==
    IF Len(text) > 0 /\ text[Len(text)].c = " "
    THEN RStrip(SubSeq(text, 1, Len(text) - 1))
    ELSE text

Strip(text) == RStrip(LStrip(text))

\* str.startswith(c)
StartsWith(text, c) == Len(text) > 0 /\ Head(text).c = c

\* str.split(c): the pieces between the separators, at least one piece
RECURSIVE Split(_, _)
Split(text, c) ==
    IF \A i \in 1..Len(text) : text[i].c # c
    THEN <<text>>
    ELSE LET i == CHOOSE j \in 1..Len(text) :
                      /\ text[j].c = c
                      /\ \A h \in 1..(j - 1) : text[h].c # c
         IN  <<SubSeq(text, 1, i - 1)>> \o Split(SubSeq(text, i + 1, Len(text)), c)

\* float(text) raises ValueError unless the text, blanks around it dropped,
\* is one number (nan is accepted)
FloatRaises(text) ==
    LET t == Strip(text)
    IN  ~(Len(t) = 1 /\ t[1].c \in {"int", "dec", "nan"})

float(text) ==
    LET t == Strip(text)
    IN  IF t[1].c = "nan" THEN PyNaN ELSE PyFloat(t[1].w, t[1].f)

\* int(x) of a float truncates; it raises ValueError on nan
IntRaises(x) == x.ty = "nan"

int(x) == PyInt(x.w)

\* json.loads(text) for an object of number and string members: blanks
\* between the items do not count
JsonItems(text) == SelectSeq(text, LAMBDA t : t.c # " ")

JsonRaises(text) ==
    LET t == JsonItems(text)
        n == Len(t)
    IN  ~ /\ n >= 2
          /\ t[1].c = "{"
          /\ t[n].c = "}"
          /\ \/ n = 2
             \/ /\ (n - 2) % 4 = 3
                /\ \A i \in 2..(n - 1) :
                      CASE (i - 2) % 4 = 0 -> t[i].c = "str"
                        [] (i - 2) % 4 = 1 -> t[i].c = ":"
                        [] (i - 2) % 4 = 2 -> t[i].c \in {"int", "dec", "str"}
                        [] OTHER -> t[i].c = ","

JsonValue(t) ==
    CASE t.c = "int" -> PyInt(t.w)
      [] t.c = "dec" -> PyFloat(t.w, t.f)
      [] OTHER -> PyStr(t.s)

\* the dict of the object; of two members with one key the later wins
JsonLoads(text) ==
    LET t == JsonItems(text)
        at(k) == {i \in 2..(Len(t) - 1) : (i - 2) % 4 = 0 /\ t[i].s = k}
        last(k) == CHOOSE i \in at(k) : \A j \in at(k) : j <= i
    IN  [k \in AllKeys |-> IF at(k) = {} THEN Absent ELSE JsonValue(t[last(k) + 2])]

\* the dict literal of the comma-separated branch
CsvDict(parts) ==
    [k \in AllKeys |->
        CASE k = "timestamp" -> Now
          [] k = "state" -> int(float(parts[1]))
          [] k = "temp" -> float(parts[2])
          [] k = "pressure" -> float(parts[3])
          [] k = "flow" -> float(parts[4])
          [] OTHER -> float(parts[5])]

\* the dict literal raises: a float() fails, or int() of the first does
CsvRaises(parts) ==
    \/ \E i \in 1..MinFields : FloatRaises(parts[i])
    \/ IntRaises(float(parts[1]))

\* What one call gives: none says it returned None, d is the dict
\* otherwise, printed says the except branch wrote its message.
Gave(d) == [none |-> FALSE, d |-> d, printed |-> FALSE]
GaveNone(printed) == [none |-> TRUE, d |-> NoDict, printed |-> printed]

parse_serial_line(line) ==
    LET text == Strip(line)
    IN  IF StartsWith(text, "{")
        THEN IF JsonRaises(text) THEN GaveNone(TRUE) ELSE Gave(JsonLoads(text))
        ELSE LET parts == Split(text, ",")
             IN  IF Len(parts) >= MinFields
                 THEN IF CsvRaises(parts) THEN GaveNone(TRUE) ELSE Gave(CsvDict(parts))
                 ELSE GaveNone(FALSE)

\* The lines a device writes.  A comma-separated line has 1..MaxFields
\* fields, each one of FieldTexts; a JSON line has the first so many of the
\* five keys, each with one of MemberTexts, and may lack its closing brace.
\* pad puts a blank before the line and the line end after it.
FieldTexts == {<<IntLit(2)>>, <<DecLit(25, 3)>>, <<Ch("nan")>>, <<Ch("word")>>, <<>>}
MemberTexts == {IntLit(2), DecLit(25, 3), Ch("word")}

RECURSIVE Join(_)
Join(fields) ==
    IF Len(fields) = 0 THEN <<>>
    ELSE IF Len(fields) = 1 THEN fields[1]
    ELSE fields[1] \o <<Ch(",")>> \o Join(Tail(fields))

Shapes ==
    { [form |-> "csv", pad |-> p, closed |-> TRUE, fields |-> fs, vals |-> <<>>] :
        p \in BOOLEAN, fs \in UNION {[1..n -> FieldTexts] : n \in 1..MaxFields} }
    \cup
    { [form |-> "json", pad |-> p, closed |-> c, fields |-> <<>>, vals |-> vs] :
        p \in BOOLEAN, c \in BOOLEAN,
        vs \in UNION {[1..n -> MemberTexts] : n \in 0..MinFields} }

Written(sh) ==
    LET body == IF sh.form = "csv"
                THEN Join(sh.fields)
                ELSE <<Ch("{")>>
                     \o Join([i \in 1..Len(sh.vals) |->
                                 <<Quoted(FieldKeys[i]), Ch(":"), sh.vals[i]>>])
                     \o (IF sh.closed THEN <<Ch("}")>> ELSE <<>>)
    IN  IF sh.pad THEN <<Ch(" ")>> \o body \o <<Ch(" ")>> ELSE body

\* no call of parse_serial_line is followed
NotParsing == [shape |-> [form |-> "none"], done |-> FALSE]

\* the call of parse_serial_line on the line
ParseLine ==
    /\ parsing.shape.form # "none"
    /\ ~parsing.done
    /\ parsing' = [parsing EXCEPT !.done = TRUE,
                                  !.result = parse_serial_line(parsing.line)]
    /\ UNCHANGED <<aux, worker>>

\* ------------------------------------- LivePlotter, MultiVariableLivePlot

\* the largest max_points, the last timestamp, and the most readings one
\* plotter is shown
MaxPoints == 2
MaxStamp == 2
MaxSeen == 3

Plotters == {"LivePlotter", "MultiVariableLivePlot"}

\* a plotter after __init__.  first, last and seen are history: the
\* timestamps of the first and of the latest reading it was shown, and how
\* many it was shown.
NewPlotter(max_points) ==
    [max_points |-> max_points, time_data |-> <<>>, start_time |-> NoTime,
     first |-> NoTime, last |-> NoTime, seen |-> 0]

\* the history of a plotter that is shown a reading stamped ts
Shown(p, ts) ==
    [p EXCEPT !.first = IF p.seen = 0 THEN ts ELSE @, !.last = ts, !.seen = @ + 1]

\* a reading stamped ts can be shown to plotter p next
NextReadingFor(p, ts) == p.seen < MaxSeen /\ ts \in 1..MaxStamp /\ ts >= p.last

\* LivePlotter.update_data with a reading stamped ts:
\* if len(self.time_data) == 0: self.start_time = ...; time_offset = 0
LiveUpdateData(ts) ==
    LET p == plots["LivePlotter"]
    IN  /\ NextReadingFor(p, ts)
        /\ LET start_time == IF Len(p.time_data) = 0 THEN ts ELSE p.start_time
               time_offset == IF Len(p.time_data) = 0 THEN 0 ELSE ts - p.start_time
           IN  plots' = [plots EXCEPT !["LivePlotter"] =
                            [Shown(p, ts) EXCEPT
                                !.start_time = start_time,
                                !.time_data = DequeAppend(p.time_data, time_offset,
                                                          p.max_points)]]
        /\ UNCHANGED <<sensor, cloud, board, parsing, worker>>

\* MultiVariableLivePlot.update_data with a reading stamped ts:
\* if self.start_time is None: self.start_time = ...; time_offset = 0
MultiUpdateData(ts) ==
    LET p == plots["MultiVariableLivePlot"]
    IN  /\ NextReadingFor(p, ts)
        /\ LET start_time == IF p.start_time = NoTime THEN ts ELSE p.start_time
               time_offset == IF p.start_time = NoTime THEN 0 ELSE ts - p.start_time
           IN  plots' = [plots EXCEPT !["MultiVariableLivePlot"] =
                            [Shown(p, ts) EXCEPT
                                !.start_time = start_time,
                                !.time_data = DequeAppend(p.time_data, time_offset,
                                                          p.max_points)]]
        /\ UNCHANGED <<sensor, cloud, board, parsing, worker>>

\* ---------------------------------------------------------- BiogasDashboard

\* the largest max_points of the dashboard
MaxBoard == 2

\* BiogasDashboard.__init__: data_buffer = deque(maxlen = max_points)
NewBoard(max_points) == [max_points |-> max_points, data_buffer |-> <<>>]

\* the consumer the dashboard is
Dash == 1

\* update_data_store, on a refresh tick, calls get_latest_data of its source
UpdateDataStoreSim ==
    /\ cons[Dash].op = "none"
    /\ SimCallGetLatest(Dash)

UpdateDataStoreSerial ==
    /\ kind = "serial"
    /\ cons[Dash].op = "none"
    /\ DequeCallGetLatest(Dash)

\* the rest of update_data_store, get_latest_data having returned:
\* if new_data: ...; self.data_buffer.append(new_data)
UpdateDataStoreAppend ==
    /\ cons[Dash].pc = "idle" /\ cons[Dash].op = "get_latest"
    /\ board' = IF cons[Dash].exc = "none" /\ cons[Dash].latest # None
                THEN [board EXCEPT !.data_buffer =
                         DequeAppend(@, cons[Dash].latest, board.max_points)]
                ELSE board
    /\ cons' = [cons EXCEPT ![Dash] = Resting]
    /\ UNCHANGED <<sensor, cloud, plots, parsing, thist, kind, source, format, capacity, running,
                   thread, serial_connection, opened, buf, tpc, tdata, nextId, ctl, hist,
                   fresh, errlog>>

\* no plotter and no dashboard in use
DisplayIdle ==
    /\ plots = [n \in Plotters |-> NewPlotter(0)]
    /\ board = NewBoard(0)

\* ------------------------------------------------------------ the system

\* nothing outside the worker is in use
AuxIdle == SensorIdle /\ CloudIdle /\ DisplayIdle

\* the state after construction (__init__ of the three classes), with nctl
\* callers of start / stop and ncons consumers
Construct(nctl, ncons) ==
    /\ kind \in Kinds
    /\ capacity \in 1..MaxCap
    /\ running = FALSE
    /\ thread = 0
    /\ serial_connection = 0
    /\ opened = 0
    /\ buf = <<>>
    /\ tpc = [t \in Threads |-> "unborn"]
    /\ tdata = [t \in Threads |-> None]
    /\ nextId = 0
    /\ ctl = [c \in 1..nctl |-> Idle]
    /\ cons = [c \in 1..ncons |-> Resting]
    /\ hist = <<>>
    /\ fresh = 0

\* one caller of start / stop and one consumer
Constructed == Construct(1, 1)

\* the device on the serial port sends lines of format f
LineFormat(f) == IF kind = "serial" THEN f ELSE "none"

\* no thread is watched
Init ==
    /\ Constructed /\ source = "finite" /\ format = LineFormat("csv")
    /\ parsing = NotParsing /\ AuxIdle
    /\ errlog = [thread |-> 0, raised |-> FALSE, recovered |-> FALSE]
    /\ thist = NoHistory

WorkerStep ==
    \/ \E t \in Threads : SimLoop(t)
    \/ \E t \in Threads : SimGenerate(t)
    \/ \E t \in Threads : SimHandler(t)
    \/ \E t \in Threads : SimFullCheck(t)
    \/ \E t \in Threads : SimEvict(t)
    \/ \E t \in Threads : SimPut(t)
    \/ \E t \in Threads : SimSleep(t)
    \/ \E t \in Threads : SerialLoop(t)
    \/ \E t \in Threads : SerialReadline(t)
    \/ \E t \in Threads : SerialAppend(t)
    \/ \E t \in Threads : SerialBackoff(t)
    \/ \E t \in Threads : TBLoop(t)
    \/ \E t \in Threads : TBRead(t)
    \/ \E t \in Threads : TBCaught(t)
    \/ \E t \in Threads : TBAppend(t)
    \/ \E t \in Threads : TBSleep(t)

ControllerStep ==
    \/ \E c \in DOMAIN ctl : CallStart(c)
    \/ \E c \in DOMAIN ctl : CallStop(c)
    \/ \E c \in DOMAIN ctl : SimStart(c)
    \/ \E c \in DOMAIN ctl : TBStart(c)
    \/ \E c \in DOMAIN ctl : SerialStart(c)
    \/ \E c \in DOMAIN ctl : StartSetRunning(c)
    \/ \E c \in DOMAIN ctl : StartMakeThread(c)
    \/ \E c \in DOMAIN ctl : StartRunThread(c)
    \/ \E c \in DOMAIN ctl : TBStop(c)
    \/ \E c \in DOMAIN ctl : StopClearRunning(c)
    \/ \E c \in DOMAIN ctl : StopJoin(c)

ConsumerStep ==
    \/ \E c \in DOMAIN cons : SimCallGetLatest(c)
    \/ \E c \in DOMAIN cons : SimGetLatestEmpty(c)
    \/ \E c \in DOMAIN cons : SimGetLatestGet(c)
    \/ \E c \in DOMAIN cons : SimCallGetAll(c)
    \/ \E c \in DOMAIN cons : SimGetAllEmpty(c)
    \/ \E c \in DOMAIN cons : SimGetAllGet(c)
    \/ \E c \in DOMAIN cons : DequeCallGetLatest(c)
    \/ \E c \in DOMAIN cons : DequeGetLatestLen(c)
    \/ \E c \in DOMAIN cons : DequeGetLatestIndex(c)
    \/ \E c \in DOMAIN cons : DequeCallGetAll(c)
    \/ \E c \in DOMAIN cons : DequeGetAllList(c)

Next == WorkerStep \/ ControllerStep \/ ConsumerStep

Spec == Init /\ [][Next]_vars

\* One worker thread's steps, and the steps inside a stop call: the units the
\* operating system schedules.
ThreadStep(t) ==
    \/ SimLoop(t) \/ SimGenerate(t) \/ SimHandler(t) \/ SimFullCheck(t)
    \/ SimEvict(t) \/ SimPut(t) \/ SimSleep(t)
    \/ SerialLoop(t) \/ SerialReadline(t) \/ SerialAppend(t) \/ SerialBackoff(t)
    \/ TBLoop(t) \/ TBRead(t) \/ TBCaught(t) \/ TBAppend(t) \/ TBSleep(t)

StopStep(c) == TBStop(c) \/ StopClearRunning(c) \/ StopJoin(c)

\* The worker and its controller alone.  Every started thread keeps being
\* scheduled (each read step and each sleep completes) and a caller inside
\* stop keeps executing it.
LifeNext == WorkerStep \/ ControllerStep

\* the same behaviours with thread 1 watched
WatchInit ==
    /\ Constructed /\ source = "finite" /\ format = LineFormat("csv")
    /\ parsing = NotParsing /\ AuxIdle
    /\ errlog = [thread |-> 1, raised |-> FALSE, recovered |-> FALSE]
    /\ thist = NoHistory

WatchSpec == WatchInit /\ [][LifeNext]_vars

LifeSpec ==
    /\ Init /\ [][LifeNext]_vars
    /\ \A t \in Threads : WF_vars(ThreadStep(t))
    /\ WF_vars(StopStep(1))

\* Two callers of start / stop at once (two dashboard callbacks), no consumer.
RaceInit ==
    /\ Construct(2, 0) /\ source = "finite" /\ format = LineFormat("csv")
    /\ parsing = NotParsing /\ AuxIdle
    /\ errlog = [thread |-> 0, raised |-> FALSE, recovered |-> FALSE]
    /\ thist = NoHistory

RaceSpec == RaceInit /\ [][LifeNext]_vars

\* One caller of start / stop and two consumers at once.
ReadersInit ==
    /\ Construct(1, 2) /\ source = "finite" /\ format = LineFormat("csv")
    /\ parsing = NotParsing /\ AuxIdle
    /\ errlog = [thread |-> 0, raised |-> FALSE, recovered |-> FALSE]
    /\ thist = NoHistory

ReadersSpec == ReadersInit /\ [][Next]_vars

\* The worker and its controller, the device on the serial port sending JSON.
JsonInit ==
    /\ Construct(1, 0) /\ source = "finite" /\ format = LineFormat("json")
    /\ parsing = NotParsing /\ AuxIdle
    /\ errlog = [thread |-> 0, raised |-> FALSE, recovered |-> FALSE]
    /\ thist = NoHistory

JsonSpec == JsonInit /\ [][LifeNext]_vars

\* the steps of consumer c inside a read operation
ConsumerRun(c) ==
    \/ SimGetLatestEmpty(c) \/ SimGetLatestGet(c)
    \/ SimGetAllEmpty(c) \/ SimGetAllGet(c)
    \/ DequeGetLatestLen(c) \/ DequeGetLatestIndex(c) \/ DequeGetAllList(c)

\* A sensor that never runs dry, one caller of start / stop and one consumer.
\* Every started thread and a consumer inside a read operation keep being
\* scheduled.
DrainInit ==
    /\ Constructed /\ source = "endless" /\ format = LineFormat("csv")
    /\ parsing = NotParsing /\ AuxIdle
    /\ errlog = [thread |-> 0, raised |-> FALSE, recovered |-> FALSE]
    /\ thist = NoHistory

DrainSpec ==
    /\ DrainInit /\ [][Next]_vars
    /\ \A t \in Threads : WF_vars(ThreadStep(t))
    /\ WF_vars(ConsumerRun(1))

\* one call of parse_serial_line on one line a device may write
ParseInit ==
    /\ Construct(0, 0) /\ kind = "serial" /\ capacity = 1
    /\ source = "finite" /\ format = LineFormat("csv")
    /\ errlog = [thread |-> 0, raised |-> FALSE, recovered |-> FALSE]
    /\ thist = NoHistory
    /\ AuxIdle
    /\ \E sh \in Shapes :
          parsing = [shape |-> sh, line |-> Written(sh), done |-> FALSE,
                     result |-> GaveNone(FALSE)]

ParseSpec == ParseInit /\ [][ParseLine]_vars


\* a BiogasSensorSimulator on its own: built with any base concentration,
\* then told its state, adjusted and asked for readings in any order
GenInit ==
    /\ Construct(0, 0) /\ kind = "sim" /\ capacity = 1
    /\ source = "finite" /\ format = LineFormat("csv")
    /\ parsing = NotParsing
    /\ errlog = [thread |-> 0, raised |-> FALSE, recovered |-> FALSE]
    /\ thist = NoHistory
    /\ \E base \in Concentrations : simulator = NewSimulator(base)
    /\ generated = NotGenerated
    /\ lateSet = FALSE
    /\ CloudIdle /\ DisplayIdle

GenNext ==
    \/ \E v \in Near(0), n \in Near(0) : GenerateSensorReading(v, n)
    \/ set_error_state
    \/ set_measurement_state
    \/ set_normal_state
    \/ \E c \in Concentrations : adjust_ch4_concentration(c)

GenSpec == GenInit /\ [][GenNext]_vars


\* a worker whose simulator is told its state at any time
StateInit ==
    /\ Construct(1, 0) /\ source = "finite" /\ format = LineFormat("csv")
    /\ parsing = NotParsing /\ AuxIdle
    /\ errlog = [thread |-> 0, raised |-> FALSE, recovered |-> FALSE]
    /\ thist = NoHistory

StateNext ==
    \/ LifeNext
    \/ set_error_state
    \/ set_measurement_state
    \/ set_normal_state

StateSpec == StateInit /\ [][StateNext]_vars

\* a ThingsBoardClient, its caller and one ThingsBoardSensorReader being
\* constructed on it, with a server that has any set of devices
ClientInit ==
    /\ Construct(0, 0) /\ kind = "tb" /\ capacity = 1
    /\ source = "finite" /\ format = LineFormat("csv")
    /\ parsing = NotParsing
    /\ errlog = [thread |-> 0, raised |-> FALSE, recovered |-> FALSE]
    /\ thist = NoHistory
    /\ SensorIdle /\ DisplayIdle
    /\ client = NewClient
    /\ now = 1
    /\ api = NoCall
    /\ \E ds \in SUBSET DeviceNames : server = [issued |-> 0, devices |-> ds]
    /\ reader = NoReader

ClientNext ==
    \/ Authenticate
    \/ \E op \in Fetches : CallFetch(op)
    \/ CheckTokenExpiry
    \/ Request
    \/ Tick
    \/ \E n \in DeviceNames : NewReader(n)
    \/ ReaderLookedUp
    \/ ReaderBuilt

ClientSpec == ClientInit /\ [][ClientNext]_vars


\* one LivePlotter and one MultiVariableLivePlot, each with any max_points,
\* each shown readings in the order of their timestamps
PlotInit ==
    /\ Construct(0, 0) /\ kind = "sim" /\ capacity = 1
    /\ source = "finite" /\ format = LineFormat("csv")
    /\ parsing = NotParsing
    /\ errlog = [thread |-> 0, raised |-> FALSE, recovered |-> FALSE]
    /\ thist = NoHistory
    /\ SensorIdle /\ CloudIdle
    /\ \E a \in 0..MaxPoints, b \in 0..MaxPoints :
          plots = [n \in Plotters |-> NewPlotter(IF n = "LivePlotter" THEN a ELSE b)]
    /\ board = NewBoard(0)

PlotNext ==
    \/ \E ts \in 1..MaxStamp : LiveUpdateData(ts)
    \/ \E ts \in 1..MaxStamp : MultiUpdateData(ts)

PlotSpec == PlotInit /\ [][PlotNext]_vars

\* a worker with its caller of start / stop and the dashboard, which reads
\* the simulator or the serial reader on every refresh tick
DashInit ==
    /\ Constructed /\ source = "finite" /\ format = LineFormat("csv")
    /\ parsing = NotParsing
    /\ errlog = [thread |-> 0, raised |-> FALSE, recovered |-> FALSE]
    /\ thist = NoHistory
    /\ SensorIdle /\ CloudIdle
    /\ plots = [n \in Plotters |-> NewPlotter(0)]
    /\ board = NewBoard(MaxBoard)

DashNext ==
    \/ WorkerStep
    \/ ControllerStep
    \/ UpdateDataStoreSim
    \/ SimGetLatestEmpty(Dash)
    \/ SimGetLatestGet(Dash)
    \/ UpdateDataStoreSerial
    \/ DequeGetLatestLen(Dash)
    \/ DequeGetLatestIndex(Dash)
    \/ UpdateDataStoreAppend

DashSpec == DashInit /\ [][DashNext]_vars


\* the worker and its controller alone, with every thread followed
LoopInit ==
    /\ Construct(1, 0) /\ source = "finite" /\ format = LineFormat("csv")
    /\ parsing = NotParsing /\ AuxIdle
    /\ errlog = [thread |-> 0, raised |-> FALSE, recovered |-> FALSE]
    /\ thist = [t \in Threads |-> NewThread]

LoopSpec == LoopInit /\ [][LifeNext]_vars

\* ------------------------------------------------------------ the claims

\* a consumer call of operation o by c returns in this step
Returns(c, o) ==
    /\ cons[c].pc # "idle" /\ cons'[c].pc = "idle"
    /\ cons'[c].op = o /\ cons'[c].exc = "none"

\* C1: in every reachable state the buffer holds at most capacity readings.
C1_BufferBounded == Len(buf) <= capacity

\* C1 witness: a full buffer after more insertions than its capacity
C1_Witness == Len(buf) = capacity /\ Len(hist) > capacity /\ capacity = MaxCap

\* C2: a get-all call that runs alone, made after more than capacity
\* insertions since a consumer last took a reading out, returns exactly the
\* last capacity inserted readings in insertion order.
C2_GetAllReturnsLastN ==
    [][\A c \in DOMAIN cons :
          (Returns(c, "get_all") /\ cons[c].clean /\ cons[c].k > capacity)
              => cons'[c].data = LastN(hist, capacity)]_vars

\* C2 witness: the simulator's get_all_data, called alone after more than
\* capacity insertions, has taken the last capacity readings out of the queue
\* and is at the loop test that ends the call and returns them
C2_Witness ==
    \E c \in DOMAIN cons :
        /\ kind = "sim" /\ cons[c].pc = "ga_empty" /\ QueueEmpty(buf)
        /\ cons[c].clean /\ cons[c].k > capacity /\ capacity = MaxCap
        /\ cons[c].data = LastN(hist, capacity) /\ Len(cons[c].data) = capacity

\* C3 (as claimed): a get-all call that runs alone is a peek, the readings it
\* returns are still the contents of the buffer when it returns.
C3_GetAllIsPeek ==
    [][\A c \in DOMAIN cons :
          (Returns(c, "get_all") /\ cons[c].clean) => buf' = cons'[c].data]_vars

\* C4: ThreadedSensorSimulator.get_latest_data, running alone after k >= 1
\* insertions since a consumer last took a reading out, returns the most
\* recently inserted reading and leaves the queue empty; called with no
\* insertion since (k = 0), it returns None.
C4_GetLatestDrains ==
    [][\A c \in DOMAIN cons :
          (kind = "sim" /\ Returns(c, "get_latest") /\ cons[c].clean)
              => /\ buf' = <<>>
                 /\ cons'[c].latest = IF cons[c].k = 0 THEN None ELSE Last(hist)]_vars

\* C4 witness: get_latest_data, called alone after two insertions since an
\* earlier call took readings out, has emptied the queue, holds the second of
\* the two and is at the loop test that ends the call and returns it
C4_Witness ==
    \E c \in DOMAIN cons :
        /\ kind = "sim" /\ cons[c].pc = "gl_empty" /\ QueueEmpty(buf)
        /\ cons[c].clean /\ cons[c].k = 2 /\ Len(hist) > 2
        /\ cons[c].latest = Last(hist)

\* C5 (as claimed): for every kind of worker a get-latest call that runs
\* alone does what the simulator's drain-to-latest does: it returns the newest
\* reading, or None when nothing was inserted since a reading was last taken
\* out, and it leaves the buffer empty.
C5_GetLatestUniform ==
    [][\A c \in DOMAIN cons :
          (Returns(c, "get_latest") /\ cons[c].clean)
              => /\ cons'[c].latest = (IF cons[c].k = 0 THEN None ELSE Last(hist))
                 /\ buf' = <<>>]_vars

\* the step of controller c that decides a start call
StartDecides(c) == ctl[c].pc = "start" /\ ctl'[c].pc # "start"

\* C6: start on a running ThreadedSensorSimulator or ThingsBoardSensorReader
\* returns at once: no thread is created, every thread stays where it is, and
\* the running flag, self.thread and the buffer are unchanged.
C6_StartIdempotent ==
    [][\A c \in DOMAIN ctl :
          (kind \in {"sim", "tb"} /\ running /\ StartDecides(c))
              => /\ ctl'[c] = [pc |-> "idle", ret |-> "noop"]
                 /\ UNCHANGED <<running, thread, tpc, buf>>]_vars

\* C6 witness: start has returned as a no-op while the worker thread runs
C6_Witness ==
    \E c \in DOMAIN ctl :
        /\ kind \in {"sim", "tb"} /\ ctl[c] = [pc |-> "idle", ret |-> "noop"]
        /\ running /\ thread # 0 /\ Alive(thread)
        /\ Cardinality({t \in Threads : tpc[t] # "unborn"}) = 1

\* C7 (as claimed): start on a running SerialDataReader returns at once and
\* opens no connection.
C7_SerialStartIdempotent ==
    [][\A c \in DOMAIN ctl :
          (kind = "serial" /\ running /\ StartDecides(c))
              => /\ ctl'[c].pc = "idle"
                 /\ UNCHANGED <<serial_connection, opened, thread, tpc>>]_vars

\* C8 (as claimed): once a stop call has returned, and until start is called
\* again, no thread of the worker is alive.
C8_StopJoinsEveryThread ==
    (\A c \in DOMAIN ctl : ctl[c] = [pc |-> "idle", ret |-> "stopped"])
        => \A t \in Threads : ~Alive(t)

ReadRaises(t) ==
    \/ tpc[t] = "gen" /\ tpc'[t] = "handler"
    \/ tpc[t] = "readline" /\ tpc'[t] = "backoff"
    \/ tpc[t] = "read" /\ tpc'[t] = "caught"

\* thread t leaves the handler of the exception in this step
HandlerDone(t) == tpc[t] \in {"handler", "backoff", "caught"} /\ tpc'[t] # tpc[t]

\* C10: an exception of the read step leaves the buffer and the running flag
\* as they are, the handler sends the thread on to its next iteration, and a
\* thread exits only from the loop test, on finding the loop condition false.
C10_ReadErrorContained ==
    [][\A t \in Threads :
          /\ ReadRaises(t) => UNCHANGED <<buf, hist, running>>
          /\ HandlerDone(t) => /\ UNCHANGED <<buf, hist, running>>
                               /\ tpc'[t] \in {"loop", "sleep"}
          /\ (tpc[t] # "dead" /\ tpc'[t] = "dead")
                => /\ tpc[t] = "loop"
                   /\ ~running \/ (kind = "serial" /\ serial_connection = 0)]_vars

\* C10 witness: a thread whose read raised has inserted a reading afterwards
\* and is still running
C10_Witness ==
    /\ errlog.thread # 0 /\ errlog.raised /\ errlog.recovered
    /\ running /\ Alive(errlog.thread)
\* C11 (as claimed): under any interleaving of start and stop calls, those of
\* two concurrent callers included, at most one thread of the worker is alive.
C11_SingleWriter == Cardinality({t \in Threads : Alive(t)}) <= 1

\* the dicts a worker can produce
Readings == {Reading(n) : n \in 1..MaxReadings} \cup {Bare(n) : n \in 1..MaxReadings}

\* C12: no consumer read operation ever ends with an exception, and what a
\* call leaves with its caller is a reading or None (get latest) and a list
\* of readings (get all), whatever the worker, its controller and the other
\* consumer are doing.
C12_ReadsNeverRaise ==
    \A c \in DOMAIN cons :
        /\ cons[c].exc = "none"
        /\ cons[c].latest \in {None} \cup Readings
        /\ \A i \in 1..Len(cons[c].data) : cons[c].data[i] \in Readings

\* C12 witness: a consumer of the simulator has passed the empty() test and
\* is at get_nowait on a queue that has been emptied under it, while the
\* other consumer has returned from a call: the queue.Empty it is about to
\* get is the exception that must not reach its caller
C12_Witness ==
    \E c, d \in DOMAIN cons :
        /\ c # d /\ kind = "sim"
        /\ cons[c].pc \in {"gl_get", "ga_get"} /\ QueueEmpty(buf)
        /\ cons[d].pc = "idle" /\ cons[d].op # "none" /\ cons[d].exc = "none"

\* C13 (as claimed): a get_latest_data call that has taken at least one
\* reading out of the queue returns the last reading it took, never None.
C13_DrainReturnsLastTaken ==
    [][\A c \in DOMAIN cons :
          (kind = "sim" /\ Returns(c, "get_latest") /\ cons[c].latest # None)
              => cons'[c].latest = cons[c].latest]_vars

\* C14 (as claimed): the queue of the simulator is never full when a worker
\* thread is at its blocking put, so the insertion never waits for a consumer.
C14_PutNeverBlocks ==
    \A t \in Threads :
        (kind = "sim" /\ tpc[t] = "put") => ~QueueFull(buf, capacity)

\* C15 (as claimed): every read operation a consumer has entered returns,
\* however fast the producer goes on inserting.
C15_ReadsTerminate == Calling(1) ~> ~Calling(1)

\* C16 (as claimed): the readings in the buffer are in the order in which
\* they were produced, which with a non-decreasing clock is the order of
\* their timestamps.
C16_BufferInOrder ==
    \A i, j \in 1..Len(buf) : i < j => buf[i].id <= buf[j].id

\* C17 (as claimed): every reading in the buffer carries a timestamp that
\* the producer side gave it before the insertion.
C17_BufferedHaveTimestamp == \A i \in 1..Len(buf) : buf[i].stamped
\* a field of a comma-separated line that is a number
Number(field) == Len(field) = 1 /\ field[1].c \in {"int", "dec"}

\* the float a number text stands for
Value(field) == PyFloat(field[1].w, field[1].f)

\* C18: parse_serial_line tries the parsers in a fixed order.  A line
\* that starts with '{' is parsed only as a JSON object: it gives the
\* object, which is never the dict of the comma-separated branch, or None.
\* Any other line is split on commas; with at least 5 fields, the first
\* five numbers, it gives state (integer), temp, pressure, flow, comp from
\* the first five in order, the rest ignored; with fewer than 5 fields, or
\* one of the first five not a number, it gives no reading.
C18_ParseOrder ==
    parsing.done =>
        LET sh == parsing.shape
            r == parsing.result
        IN  IF sh.form = "json"
            THEN /\ r.d["timestamp"] = Absent
                 /\ r.none <=> ~(sh.closed /\ \A i \in 1..Len(sh.vals) : sh.vals[i].c # "word")
                 /\ ~r.none =>
                       \A i \in 1..MinFields :
                           r.d[FieldKeys[i]] =
                               IF i <= Len(sh.vals) THEN JsonValue(sh.vals[i]) ELSE Absent
            ELSE IF Len(sh.fields) >= MinFields /\ \A i \in 1..MinFields : Number(sh.fields[i])
                 THEN /\ ~r.none
                      /\ r.d["state"] = PyInt(sh.fields[1][1].w)
                      /\ \A i \in 2..MinFields : r.d[FieldKeys[i]] = Value(sh.fields[i])
                 ELSE r.none

\* C19: every call of parse_serial_line that returns None has written a
\* message for the line (and no call raises: a call ends with a dict or
\* with None).
C19_ParseFailureLogged ==
    (parsing.done /\ parsing.result.none) => parsing.result.printed

\* the comma-separated line of the five values of a JSON line
AsCsv(vals) == Join([i \in 1..Len(vals) |-> <<vals[i]>>])

\* C20: a JSON line with the keys state, temp, pressure, flow, comp gives
\* the reading the comma-separated line of the same five values gives: the
\* same keys (timestamp among them), the same values, the same types.
C20_JsonEqualsCsv ==
    LET sh == parsing.shape
    IN  ( /\ parsing.done
          /\ sh.form = "json" /\ sh.closed
          /\ Len(sh.vals) = MinFields
          /\ \A i \in 1..MinFields : sh.vals[i].c # "word" )
        => /\ ~parsing.result.none
           /\ parsing.result.d = parse_serial_line(AsCsv(sh.vals)).d

\* C21: every reading generate_sensor_reading returns has
\* 0 <= ch4_concentration <= 100 (here in tenths of a percent), whatever
\* the base concentration, the drift and the noise sample.
C21_Ch4InRange ==
    generated.made =>
        /\ 0 <= generated.ch4_concentration
        /\ generated.ch4_concentration * 2 <= Full

\* C21 witness: a reading came out at 100 from a base above 100
C21_Witness ==
    /\ generated.made
    /\ generated.ch4_concentration * 2 = Full
    /\ simulator.base_ch4_concentration > Full

\* C22: the simulator state is always 0, 1 or 2 whatever setters are
\* called; a reading the worker generates carries the state of that moment;
\* and while no setter was called after start was entered, every reading
\* in a simulator worker's buffer has the simulator's state.
C22_StateCarried ==
    /\ [](simulator.state \in States)
    /\ []((kind = "sim" /\ ~lateSet) =>
              \A i \in 1..Len(buf) : buf[i].state = simulator.state)
    /\ [][\A t \in Threads :
              (tpc[t] = "gen" /\ tpc'[t] = "full") => tdata'[t].state = simulator.state]_vars

\* C22 witness: a simulator set to the error state before start has a
\* full buffer of readings
C22_Witness ==
    /\ kind = "sim" /\ ~lateSet
    /\ simulator.state = Error
    /\ Len(buf) = capacity

\* C23: the construction of a ThingsBoardSensorReader for a device name
\* that is not among the devices get_devices returned ends with an error
\* raised to the caller, after one lookup, and without data_buffer, running
\* or thread having been created; it goes on only for a name that is there.
C23_UnknownDeviceFatal ==
    /\ (reader.status \in {"keys", "built", "raised"} /\ reader.name \notin reader.returned)
          => (reader.status = "raised" /\ reader.lookups = 1 /\ ~reader.made)
    /\ reader.made => reader.name \in reader.returned

\* C23 witness: a construction failed for a name the server does not have,
\* the server having answered with its (non-empty) list
C23_Witness ==
    /\ reader.status = "raised"
    /\ reader.returned # {}
    /\ reader.name \notin reader.returned

\* C24: in every fetching call entered when the time is past
\* token_expires, re-authentication has been attempted when the request is
\* sent, and if it succeeded the request carries the token just issued and
\* token_expires lies in the future.
C24_ReauthBeforeRequest ==
    [][(api.pc = "send" /\ api'.pc = "idle" /\ api.expired) =>
          /\ api.reauth # "none"
          /\ api.reauth = "ok" =>
                /\ api'.sent = server.issued
                /\ client.token_expires > now]_vars

\* C24 witness: a call entered with an expired token has re-authenticated
\* and its request, carrying the second token, was answered
C24_Witness ==
    /\ api.op \in Fetches /\ api.pc = "idle"
    /\ api.expired /\ api.reauth = "ok"
    /\ api.sent = MaxTokens
    /\ api.out = "data"

\* C30: a get_latest_telemetry whose re-authentication failed (the token
\* staying expired, token, refresh_token and token_expires as they were)
\* gives no telemetry, so that the polling cycle yields no reading.
C30_FailedAuthYieldsNothing ==
    (api.op = "get_latest_telemetry" /\ api.pc = "idle" /\ api.reauth = "failed")
        => api.out # "data"

\* C25: a plotting consumer that has been shown a reading has its epoch
\* at the timestamp of the first reading it was shown, and the offset it
\* displays last is the latest reading's timestamp minus that epoch (0 for
\* the first), however many readings it has been shown.
C25_EpochFixed ==
    \A n \in Plotters :
        LET p == plots[n]
        IN  p.seen > 0 =>
                /\ p.start_time = p.first
                /\ Len(p.time_data) > 0 => Last(p.time_data) = p.last - p.first

\* C29: with the simulator or the serial reader as source, no reading is
\* in the dashboard's data_buffer twice (a tick that finds no new reading
\* appends nothing).
C29_AppendedOnce ==
    kind \in {"sim", "serial"} =>
        \A i, j \in 1..Len(board.data_buffer) :
            i # j => board.data_buffer[i].id # board.data_buffer[j].id

\* a thread passes its loop test and goes on to a read attempt
ReadsAgain(t) == tpc[t] = "loop" /\ tpc'[t] \in {"gen", "readline", "read"}

\* C26: a worker thread that goes on to a read attempt has slept since its
\* previous one (it slept the interval, or a backoff after a read that
\* raised).
C26_SleepBetweenReads ==
    [][\A t \in DOMAIN thist : ReadsAgain(t) => thist[t].slept]_vars

\* a thread holding a reading it has read and not yet inserted
Holding(t) == tpc[t] \in {"full", "evict", "put", "append"}

\* C27: cancellation is cooperative and tested once an iteration: clearing
\* running moves no thread, a thread holding a reading goes nowhere but on
\* to its insertion, a thread inserts at most one reading after running
\* was cleared, and a thread that tests its loop with running cleared exits.
C27_StopIsCooperative ==
    /\ [](\A t \in DOMAIN thist : thist[t].late <= 1)
    /\ [][/\ running /\ ~running' => tpc' = tpc /\ buf' = buf
          /\ \A t \in DOMAIN thist :
                /\ Holding(t) /\ tpc'[t] # tpc[t]
                      => Holding(t)' \/ (tpc'[t] \in {"sleep", "loop"} /\ buf' # buf)
                /\ tpc[t] = "loop" /\ ~running /\ tpc'[t] # "loop"
                      => tpc'[t] = "dead"]_vars

\* C27 witness: a thread has inserted the reading of the iteration that
\* was in progress when running was cleared
C27_Witness ==
    /\ kind \in {"sim", "tb"} /\ ~running /\ Len(buf) > 1
    /\ \E t \in DOMAIN thist : thist[t].late = 1 /\ tpc[t] = "sleep"

\* C28: no step of start or stop changes the buffer, so a worker started
\* again after a stop inserts behind the readings buffered before the stop.
C28_RestartKeepsBuffer == [][ctl' # ctl => buf' = buf]_vars

\* C28 witness: the worker was stopped and has been started again, its new
\* thread has not run yet, and the readings of the thread before it are in
\* the buffer in the order of their insertion
C28_Witness ==
    /\ running /\ thread = 2 /\ tpc[1] = "dead" /\ tpc[2] = "created"
    /\ Len(buf) = 2 /\ buf[1].id < buf[2].id

====
